---- MODULE Spec2Model ----
(***************************************************************************)
(* The periodic value / countdown core of the demo application:            *)
(*   useRandom (hooks/random.ts), useTimer (hooks/timer.ts) and their      *)
(*   composition in App.                                                   *)
(*                                                                         *)
(* One time unit is 1000 ms.  The hooks run on React's hook runtime:       *)
(* a state setter enqueues an update, a render applies the queued updates  *)
(* in order and compares the dependency arrays, and the effects a render   *)
(* scheduled run afterwards (passive effects), always before the next      *)
(* render.  Timer callbacks that are due at the same instant may run in    *)
(* either order and may run between a render and its passive effects.      *)
(* React finishes its work long before the next second, so the clock only  *)
(* advances when nothing is due or pending.                                *)
(***************************************************************************)
EXTENDS Integers, Sequences, FiniteSets, TLC

\* ---- bounds of the model ------------------------------------------------
MaxTime == 21
RandDenom == 1000

\* Math.random() is modelled as k / RandDenom, k in 0 .. RandDenom-1.
RandInputs == 0 .. (RandDenom - 1)
\* The outputs of Math.random() the composed application draws from.
RandSamples == {0, RandDenom \div 2, RandDenom - 1}

\* ---- program constants ---------------------------------------------------
InitialSeconds == 10
GenPeriod == 10
TickPeriod == 1
RandScale == 9000
RandOffset == 1000
NoInterval == 0

VARIABLES
  now,                 \* the clock, in time units
  number,              \* useRandom: state `number`
  numberQueue,         \* useRandom: updates queued by storeNumber
  seconds,             \* useTimer: state `seconds`
  secondsQueue,        \* useTimer: updates queued by storeSeconds
  effectDeps,          \* useTimer: [randomNumber, tick] of the last render
  tickRef,             \* useTimer: identity of the function `tick` holds
  randomEffectPending, \* useRandom's effect is scheduled and has not run
  timerEffectPending,  \* useTimer's effect is scheduled and has not run
  timers,              \* the host's active intervals
  nextId,              \* the next interval handle setInterval returns
  randomInterval,      \* `interval` captured by useRandom's cleanup
  timerInterval,       \* `interval` captured by useTimer's cleanup
  randomMounted,       \* useRandom has not been torn down
  timerMounted,        \* useTimer has not been torn down
  display,             \* what App rendered last: <<randomNumber, timer>>
  emissions,           \* history: firings of the generator's interval
  lastFireAt,          \* history: time of the last generator firing
  resetAt,             \* history: time useTimer's effect last ran
  ticksThisUnit,       \* history: tick callbacks run in this time unit
  shownNew,            \* history: the last render showed a value first
                       \*          rendered in this time unit
  everyValueNew        \* history: every emitted value differed from the
                       \*          value emitted before it

vars == <<now, number, numberQueue, seconds, secondsQueue, effectDeps,
          randomEffectPending, timerEffectPending, timers, nextId,
          randomInterval, timerInterval, randomMounted, timerMounted,
          display, emissions, lastFireAt, resetAt, ticksThisUnit, shownNew,
          tickRef, everyValueNew>>

\* ---- pure helpers --------------------------------------------------------

randWide(k) == ((k * 10000) \div RandDenom) + RandOffset

\* rand(): Math.floor(Math.random() * 9000 + 1000), Math.random() = k/RandDenom
rand(k) == ((k * RandScale) \div RandDenom) + RandOffset

\* setInterval(callback, period): a new recurring timer, first due one period
\* from now
SetInterval(ts, id, kind, period) ==
  ts \cup {[id |-> id, kind |-> kind, period |-> period,
            due |-> now + period]}

\* clearInterval(id)
ClearInterval(ts, id) == {t \in ts : t.id # id}

\* a recurring timer that fired is due again one period later
Refire(ts, t) ==
  (ts \ {t}) \cup {[t EXCEPT !.due = @ + t.period]}

TickTimers == {t \in timers : t.kind = "tick"}
RandomTimers == {t \in timers : t.kind = "random"}

TickUpdateUp(s) == s + 1

TickUpdateClamped(s) == IF s > 0 THEN s - 1 ELSE 0

\* the updater tick passes to storeSeconds: (s) => s - 1
TickUpdate(s) == s - 1

\* one queued update of `seconds`: the updater of tick, or the value 10
ReduceSeconds(s, u) == IF u = "tick" THEN TickUpdate(s) ELSE InitialSeconds

\* useState: a render applies the queued updates oldest first
RECURSIVE ApplyUpdates(_, _)
ApplyUpdates(s, q) ==
  IF q = <<>> THEN s ELSE ApplyUpdates(ReduceSeconds(s, Head(q)), Tail(q))

UseCallbackFresh(memo, fresh) == fresh

\* useCallback(function () {...}, []): the dependency list is empty, so every
\* render gets the memoised function back, never the one it just created
UseCallback(memo, fresh) == memo

DepsChangedNever(prev, next) == FALSE

\* useEffect(..., [randomNumber, tick]): tick is memoised with [] and never
\* changes, so the effect is scheduled when randomNumber is not Object.is-
\* equal to the one of the previous render
DepsChanged(prev, next) == prev # next

RandomEffectEverySecond(ts, id) == SetInterval(ts, id, "random", TickPeriod)

\* useRandom's effect body: setInterval(() => storeNumber(rand()), 10000)
RandomEffect(ts, id) == SetInterval(ts, id, "random", GenPeriod)

RandomCleanupKeep(ts, id) == ts

RandomCleanupAll(ts, id) == {}

\* useRandom's cleanup: () => clearInterval(interval)
RandomCleanup(ts, id) == ClearInterval(ts, id)

\* useTimer's effect body: setInterval(tick, 1000)
TimerEffect(ts, id) == SetInterval(ts, id, "tick", TickPeriod)

TimerCleanupKeep(ts, id) == ts

\* useTimer's cleanup: () => { clearInterval(interval); }
TimerCleanup(ts, id) == ClearInterval(ts, id)

StoreSecondsResetSkipped(q) == q

\* useTimer's effect body: storeSeconds(10)
StoreSecondsReset(q) == Append(q, "reset")

EffectsPending == randomEffectPending \/ timerEffectPending
UpdatesPending == numberQueue # <<>> \/ secondsQueue # <<>>
TimerDue == \E t \in timers : t.due <= now
Settled == ~EffectsPending /\ ~UpdatesPending /\ ~TimerDue

\* ---- initial state: App has rendered once, its effects have not run -----
Init ==
  /\ now = 0
  /\ number \in {rand(k) : k \in RandSamples}
  /\ numberQueue = <<>>
  /\ seconds = InitialSeconds
  /\ secondsQueue = <<>>
  /\ tickRef = 1
  /\ effectDeps = <<number, tickRef>>
  /\ randomEffectPending = TRUE
  /\ timerEffectPending = TRUE
  /\ timers = {}
  /\ nextId = 1
  /\ randomInterval = NoInterval
  /\ timerInterval = NoInterval
  /\ randomMounted = TRUE
  /\ timerMounted = TRUE
  /\ display = <<number, seconds>>
  /\ emissions = 0
  /\ lastFireAt = -1
  /\ resetAt = 0
  /\ ticksThisUnit = 0
  /\ shownNew = FALSE
  /\ everyValueNew = TRUE

\* ---- actions -------------------------------------------------------------

\* The scheduled effects run, in hook order: useRandom's (on mount only),
\* then useTimer's (cleanup of its previous run, then its body).
FlushPassiveEffects ==
  /\ EffectsPending
  /\ LET id1 == nextId
         ts1 == IF randomEffectPending THEN RandomEffect(timers, id1)
                ELSE timers
         id2 == IF randomEffectPending THEN nextId + 1 ELSE nextId
         ts2 == IF timerInterval # NoInterval
                THEN TimerCleanup(ts1, timerInterval) ELSE ts1
         ts3 == TimerEffect(ts2, id2)
     IN /\ randomInterval' = IF randomEffectPending THEN id1
                             ELSE randomInterval
        /\ IF timerEffectPending
           THEN /\ timers' = ts3
                /\ timerInterval' = id2
                /\ nextId' = id2 + 1
                /\ secondsQueue' = StoreSecondsReset(secondsQueue)
                /\ resetAt' = now
           ELSE /\ timers' = ts1
                /\ nextId' = id2
                /\ UNCHANGED <<timerInterval, secondsQueue, resetAt>>
  /\ randomEffectPending' = FALSE
  /\ timerEffectPending' = FALSE
  /\ UNCHANGED <<now, number, numberQueue, seconds, effectDeps,
                 randomMounted, timerMounted, display, emissions,
                 lastFireAt, ticksThisUnit, shownNew>>
  /\ UNCHANGED <<tickRef, everyValueNew>>

\* The generator's interval fires: () => storeNumber(rand())
RandomFire(t, k) ==
  /\ t \in RandomTimers
  /\ t.due <= now
  /\ timers' = Refire(timers, t)
  /\ numberQueue' = IF randomMounted THEN Append(numberQueue, rand(k))
                    ELSE numberQueue
  /\ emissions' = emissions + 1
  /\ lastFireAt' = now
  /\ everyValueNew' =
       (everyValueNew /\ rand(k) # (IF numberQueue = <<>> THEN number
                                    ELSE numberQueue[Len(numberQueue)]))
  /\ UNCHANGED tickRef
  /\ UNCHANGED <<now, number, seconds, secondsQueue, effectDeps,
                 randomEffectPending, timerEffectPending, nextId,
                 randomInterval, timerInterval, randomMounted, timerMounted,
                 display, resetAt, ticksThisUnit, shownNew>>

\* The countdown's interval fires: tick, storeSeconds((s) => s - 1)
Tick(t) ==
  /\ t \in TickTimers
  /\ t.due <= now
  /\ timers' = Refire(timers, t)
  /\ secondsQueue' = IF timerMounted THEN Append(secondsQueue, "tick")
                     ELSE secondsQueue
  /\ ticksThisUnit' = ticksThisUnit + 1
  /\ UNCHANGED <<now, number, numberQueue, seconds, effectDeps,
                 randomEffectPending, timerEffectPending, nextId,
                 randomInterval, timerInterval, randomMounted, timerMounted,
                 display, emissions, lastFireAt, resetAt, shownNew>>
  /\ UNCHANGED <<tickRef, everyValueNew>>

\* App renders: useRandom and useTimer apply their queued updates, useTimer
\* compares its dependencies, App returns the two numbers to display.
Render ==
  /\ UpdatesPending
  /\ ~EffectsPending
  /\ LET newNumber == IF numberQueue = <<>> THEN number
                      ELSE numberQueue[Len(numberQueue)]
         newSeconds == ApplyUpdates(seconds, secondsQueue)
         newTick == UseCallback(tickRef, tickRef + 1)
         newDeps == <<newNumber, newTick>>
     IN /\ number' = newNumber
        /\ tickRef' = newTick
        /\ seconds' = newSeconds
        /\ timerEffectPending' =
             (timerMounted /\ DepsChanged(effectDeps, newDeps))
        /\ effectDeps' = IF timerMounted THEN newDeps ELSE effectDeps
        /\ display' = <<newNumber, newSeconds>>
        /\ shownNew' = (shownNew \/ newNumber # number)
  /\ numberQueue' = <<>>
  /\ secondsQueue' = <<>>
  /\ UNCHANGED <<now, randomEffectPending, timers, nextId, randomInterval,
                 timerInterval, randomMounted, timerMounted, emissions,
                 lastFireAt, resetAt, ticksThisUnit, everyValueNew>>

\* One time unit elapses.
Advance ==
  /\ now < MaxTime
  /\ Settled
  /\ now' = now + 1
  /\ ticksThisUnit' = 0
  /\ shownNew' = FALSE
  /\ UNCHANGED <<number, numberQueue, seconds, secondsQueue, effectDeps,
                 randomEffectPending, timerEffectPending, timers, nextId,
                 randomInterval, timerInterval, randomMounted, timerMounted,
                 display, emissions, lastFireAt, resetAt>>
  /\ UNCHANGED <<tickRef, everyValueNew>>

\* useRandom's host tears the hook down: its cleanup runs once its effect
\* has run; updates it had queued are dropped with the hook's state.
TeardownRandom ==
  /\ randomMounted
  /\ ~EffectsPending
  /\ timers' = RandomCleanup(timers, randomInterval)
  /\ numberQueue' = <<>>
  /\ randomMounted' = FALSE
  /\ UNCHANGED <<now, number, seconds, secondsQueue, effectDeps,
                 randomEffectPending, timerEffectPending, nextId,
                 randomInterval, timerInterval, timerMounted, display,
                 emissions, lastFireAt, resetAt, ticksThisUnit, shownNew>>
  /\ UNCHANGED <<tickRef, everyValueNew>>

\* useTimer's host tears the hook down: the cleanup of the effect's last run.
TeardownTimer ==
  /\ timerMounted
  /\ ~EffectsPending
  /\ timers' = TimerCleanup(timers, timerInterval)
  /\ secondsQueue' = <<>>
  /\ timerMounted' = FALSE
  /\ UNCHANGED <<now, number, numberQueue, seconds, effectDeps,
                 randomEffectPending, timerEffectPending, nextId,
                 randomInterval, timerInterval, randomMounted, display,
                 emissions, lastFireAt, resetAt, ticksThisUnit, shownNew>>
  /\ UNCHANGED <<tickRef, everyValueNew>>

\* App unmounts: both cleanups run in hook order, within one commit.
Unmount ==
  /\ randomMounted
  /\ timerMounted
  /\ ~EffectsPending
  /\ timers' = TimerCleanup(RandomCleanup(timers, randomInterval),
                            timerInterval)
  /\ numberQueue' = <<>>
  /\ secondsQueue' = <<>>
  /\ randomMounted' = FALSE
  /\ timerMounted' = FALSE
  /\ UNCHANGED <<now, number, seconds, effectDeps, randomEffectPending,
                 timerEffectPending, nextId, randomInterval, timerInterval,
                 display, emissions, lastFireAt, resetAt, ticksThisUnit,
                 shownNew>>
  /\ UNCHANGED <<tickRef, everyValueNew>>

Next ==
  \/ FlushPassiveEffects
  \/ \E t \in timers : \E k \in RandSamples : RandomFire(t, k)
  \/ \E t \in timers : Tick(t)
  \/ Render
  \/ Advance
  \/ TeardownRandom
  \/ TeardownTimer
  \/ Unmount

Spec == Init /\ [][Next]_vars

\* ---- rand() alone, over every modelled output of Math.random() ----------
InitRand ==
  /\ now = 0
  /\ number \in {rand(k) : k \in RandInputs}
  /\ numberQueue = <<>>
  /\ seconds = InitialSeconds
  /\ secondsQueue = <<>>
  /\ tickRef = 1
  /\ effectDeps = <<number, tickRef>>
  /\ randomEffectPending = TRUE
  /\ timerEffectPending = TRUE
  /\ timers = {}
  /\ nextId = 1
  /\ randomInterval = NoInterval
  /\ timerInterval = NoInterval
  /\ randomMounted = TRUE
  /\ timerMounted = TRUE
  /\ display = <<number, seconds>>
  /\ emissions = 0
  /\ lastFireAt = -1
  /\ resetAt = 0
  /\ ticksThisUnit = 0
  /\ shownNew = FALSE
  /\ everyValueNew = TRUE

\* storeNumber(rand()) with an arbitrary output of Math.random(), rendered
Regenerate(k) ==
  /\ number' = rand(k)
  /\ effectDeps' = <<rand(k), tickRef>>
  /\ display' = <<rand(k), seconds>>
  /\ emissions' = 1
  /\ UNCHANGED <<now, numberQueue, seconds, secondsQueue,
                 randomEffectPending, timerEffectPending, timers, nextId,
                 randomInterval, timerInterval, randomMounted, timerMounted,
                 lastFireAt, resetAt, ticksThisUnit, shownNew>>
  /\ UNCHANGED <<tickRef, everyValueNew>>

NextRand == \E k \in RandInputs : Regenerate(k)

SpecRand == InitRand /\ [][NextRand]_vars

\* ---- properties ----------------------------------------------------------

\* useTimer's effect has run at least once and the hook is alive
TimerRunning == timerMounted /\ timerInterval # NoInterval

\* a value different from the rendered one was emitted and useTimer's effect
\* has not yet reacted to it
ValueChangePending ==
  /\ TimerRunning
  /\ \/ timerEffectPending
     \/ /\ numberQueue # <<>>
        /\ numberQueue[Len(numberQueue)] # effectDeps[1]

\* C1: after every firing of the generator's schedule, also one that
\* produces the number already held, `seconds` is 10 again before any
\* further time elapses.
C1_ResetAfterEveryFiring ==
  (TimerRunning /\ randomMounted /\ lastFireAt = now /\ Settled)
    => seconds = InitialSeconds

\* C2: at most one decrement schedule is ever active, exactly one (the one
\* the last effect run started) once the effect has run, and no time unit
\* sees more than one tick.
C2_SingleDecrementSchedule ==
  /\ Cardinality(TickTimers) <= 1
  /\ TimerRunning =>
       /\ Cardinality(TickTimers) = 1
       /\ \A t \in TickTimers : t.id = timerInterval
  /\ ticksThisUnit <= 1

C2_Witness ==
  /\ TimerRunning
  /\ resetAt >= GenPeriod
  /\ now > resetAt
  /\ ticksThisUnit = 1
  /\ Cardinality(TickTimers) = 1

\* C3 (as stated): the display never shows a newly emitted value together
\* with a countdown other than 10.
C3_NewValueNeverWithStaleCountdown ==
  (timerMounted /\ shownNew) => display[2] = InitialSeconds

\* C3 (amended): once the reset effect has run and its update has been
\* rendered, the display shows the newly emitted value with countdown 10;
\* this happens within the time unit of the emission.
C3_NewValueShownWithTenOnceEffectRendered ==
  (timerMounted /\ shownNew /\ ~EffectsPending /\ ~UpdatesPending)
    => display = <<number, InitialSeconds>>

C3_Witness ==
  /\ timerMounted
  /\ shownNew
  /\ ~EffectsPending
  /\ ~UpdatesPending
  /\ now >= GenPeriod
  /\ display = <<number, InitialSeconds>>

\* C4 (as stated): no tick is executed between a value change and the reset
\* that reacts to it.
C4_NoTickBetweenChangeAndReset ==
  [][~(ValueChangePending /\ \E t \in timers : Tick(t))]_vars

\* C4 (amended): the reset runs before any further time unit elapses; a tick
\* of the old schedule may still run before it, but every tick that runs
\* belongs to the schedule the last effect run started, and once the reset's
\* update is rendered `seconds` is 10.
C4_ResetSupersedesOldTick ==
  /\ [][ValueChangePending => now' = now]_vars
  /\ [][\A t \in timers : Tick(t) => t.id = timerInterval]_vars
  /\ [](( /\ TimerRunning
          /\ resetAt = now
          /\ ~timerEffectPending
          /\ secondsQueue = <<>> ) => seconds = InitialSeconds)

\* a tick ran after the render that scheduled the reset and before the reset
C4_Witness ==
  /\ TimerRunning
  /\ timerEffectPending
  /\ secondsQueue = <<"tick">>

\* C5: `seconds` starts at 10 and is 10 - k when k time units have elapsed
\* since the effect last ran, with no floor at zero.
C5_CountdownIsLinear ==
  /\ timerInterval = NoInterval => seconds = InitialSeconds
  /\ (TimerRunning /\ Settled) => seconds = InitialSeconds - (now - resetAt)

C5_Witness ==
  /\ TimerRunning
  /\ Settled
  /\ now - resetAt > InitialSeconds
  /\ seconds < 0

\* C6: after teardown no callback fires: no interval of a torn-down hook is
\* left, a torn-down generator never fires or changes `number`, a torn-down
\* countdown is never ticked, reset or changed.
C6_NoCallbackAfterTeardown ==
  /\ [](~randomMounted => RandomTimers = {})
  /\ [](~timerMounted => TickTimers = {})
  /\ [][~randomMounted =>
          /\ number' = number
          /\ emissions' = emissions
          /\ numberQueue' = numberQueue]_vars
  /\ [][~timerMounted =>
          /\ seconds' = seconds
          /\ resetAt' = resetAt
          /\ secondsQueue' = secondsQueue
          /\ ~(\E t \in timers : Tick(t))]_vars

\* both hooks torn down, and since then a generator period has passed without
\* an emission and at least two units without a decrement
C6_Witness ==
  /\ ~randomMounted
  /\ ~timerMounted
  /\ timers = {}
  /\ emissions < now \div GenPeriod
  /\ now - resetAt >= (InitialSeconds - seconds) + 2

\* C7: the generator has fired exactly once per 10 elapsed time units;
\* `number` only changes by rendering a value emitted in this time unit, and
\* a tick leaves it alone.
C7_OneEmissionPerPeriod ==
  /\ []((randomMounted /\ ~randomEffectPending) =>
          emissions = (now \div 10)
                      - (IF \E t \in RandomTimers : t.due <= now
                         THEN 1 ELSE 0))
  /\ [][number' # number =>
          /\ numberQueue # <<>>
          /\ number' = numberQueue[Len(numberQueue)]
          /\ lastFireAt = now]_vars
  /\ [][(\E t \in timers : Tick(t)) =>
          /\ number' = number
          /\ numberQueue' = numberQueue]_vars

C7_Witness ==
  /\ randomMounted
  /\ Settled
  /\ now >= 2 * GenPeriod
  /\ emissions = 2

\* C8: every value rand() yields, initial or regenerated, is an integer in
\* 1000 .. 9999.
C8_ValueInRange == number \in 1000 .. 9999

C8_Witness ==
  /\ emissions = 1
  /\ number = rand(RandDenom - 1)
  /\ number > 9900

\* C9: the current value is always at least 1000 and below 9000.
C9_ValueBelow9000 == number >= 1000 /\ number < 9000

\* C10: cancelling the generator's schedule leaves the countdown's schedule
\* and state as they are; afterwards the countdown is never reset and keeps
\* falling by one per time unit.
C10_GeneratorTeardownLeavesCountdown ==
  /\ [][TeardownRandom =>
          /\ TickTimers' = TickTimers
          /\ seconds' = seconds
          /\ secondsQueue' = secondsQueue
          /\ timerInterval' = timerInterval
          /\ timerMounted' = timerMounted]_vars
  /\ [][~randomMounted =>
          /\ resetAt' = resetAt
          /\ ~timerEffectPending']_vars
  /\ []((~randomMounted /\ TimerRunning /\ Settled) =>
          seconds = InitialSeconds - (now - resetAt))

C10_Witness ==
  /\ ~randomMounted
  /\ TimerRunning
  /\ Settled
  /\ emissions < now \div GenPeriod
  /\ seconds < 0

\* C11: a render that leaves randomNumber as it was (one caused by a tick)
\* hands useTimer the same `tick` function, so it does not schedule the
\* effect: the interval is neither cancelled nor restarted and `seconds` is
\* only reset in a time unit in which a new number was rendered.
C11_TickRenderDoesNotRerunEffect ==
  /\ [][(Render /\ TimerRunning /\ number' = number) =>
          /\ tickRef' = tickRef
          /\ ~timerEffectPending'
          /\ timers' = timers
          /\ timerInterval' = timerInterval
          /\ seconds' = ApplyUpdates(seconds, secondsQueue)]_vars
  /\ [][(TimerRunning /\ resetAt' # resetAt) => shownNew]_vars

\* three renders caused by ticks alone, the first interval still running
C11_Witness ==
  /\ TimerRunning
  /\ Settled
  /\ resetAt = 0
  /\ now = 3
  /\ seconds = InitialSeconds - 3
  /\ display[2] = seconds
  /\ \E t \in TickTimers : t.id = timerInterval /\ t.due = now + TickPeriod

\* C12: `seconds` never exceeds 10, whatever the interleaving of ticks,
\* dependency changes, renders and effect runs.
C12_SecondsAtMostTen == seconds <= InitialSeconds /\ display[2] <= InitialSeconds

\* back at 10 after the countdown had run down and a new number arrived
C12_Witness ==
  /\ TimerRunning
  /\ resetAt >= GenPeriod
  /\ ticksThisUnit = 1
  /\ secondsQueue = <<>>
  /\ seconds = InitialSeconds

\* C13: in the composed App, as long as every emitted number differed from
\* the one before it, the countdown on display is within 0 .. 10, whichever
\* of the generator firing and the coinciding tenth tick runs first.
C13_DisplayedCountdownNeverNegative ==
  (randomMounted /\ timerMounted /\ everyValueNew) => display[2] \in 0 .. 10

\* the tenth tick ran before the reset: the new number is on display with 0
C13_Witness ==
  /\ randomMounted
  /\ timerMounted
  /\ everyValueNew
  /\ emissions >= 1
  /\ shownNew
  /\ display = <<number, 0>>

====
